---- MODULE Spec2Model ----
(***************************************************************************)
(* signalk-to-timestream: the publish side (delta batching, glob filter,   *)
(* periodic write) of src/index.js, the reconstruction of query responses  *)
(* of src/parse_timestream.js and the history facade of src/index.js.      *)
(*                                                                         *)
(* JavaScript strings that the code takes apart or puts together (paths,   *)
(* glob patterns, regular expression sources, stringified values) are      *)
(* tuples of one-character strings.  Strings that are only compared        *)
(* (column names, type names) are TLA+ strings.                  *)
(***************************************************************************)
EXTENDS Integers, Sequences, FiniteSets, TLC

VARIABLES
    instances,          \* closures made by _create_handle_delta: id -> [options, batch_of_points, listening, timer]
                        \* and absorbed, the value entries handled since the last tick (observation)
    _handle_delta,      \* index.js:28, id of the current handler closure, 0 = undefined
    _publish_interval,  \* index.js:29, id of the current publish timer, 0 = undefined
    _database_name,     \* index.js:26
    _table_name,        \* index.js:27
    _streamers,         \* index.js:30, cookie -> stream id of the timer stored there
    streams,            \* closures made by _stream_history: id -> [cookie, playback_now, playback_rate, timer]
    queries,            \* range queries issued and not yet answered
    last_event          \* the last operation, its input and what it did (observation)

vars == <<instances, _handle_delta, _publish_interval, _database_name, _table_name,
          _streamers, streams, queries, last_event>>

publish_vars == <<instances, _handle_delta, _publish_interval, _database_name, _table_name>>
history_vars == <<_streamers, streams, queries>>

(***************************************************************************)
(* Bounds of the model.                                                    *)
(***************************************************************************)
MaxAbsorbed == 2    \* value entries absorbed by one closure between two ticks
MaxGlobLen == 2     \* length of the glob patterns of SpecFilter
MaxPathLen == 3     \* length of the paths of SpecFilter
MaxRows == 3        \* rows of a query response
MaxStreams == 2     \* streamHistory calls
MaxPending == 2     \* range queries in flight
MaxLookups == 1     \* queries in flight when getHistory or hasAnyData issues one more
MaxClosures == 2    \* handler closures alive at a time
MaxUpdates == 3     \* updates of one delta
MaxPlayback == 3    \* playback position, in seconds after the epoch

(***************************************************************************)
(* Strings.                                                                *)
(***************************************************************************)
RECURSIVE ConcatAll(_)
ConcatAll(ss) == IF ss = <<>> THEN <<>> ELSE Head(ss) \o ConcatAll(Tail(ss))

Dot == <<".">>

Digit(d) == CASE d = 0 -> "0" [] d = 1 -> "1" [] d = 2 -> "2" [] d = 3 -> "3"
              [] d = 4 -> "4" [] d = 5 -> "5" [] d = 6 -> "6" [] d = 7 -> "7"
              [] d = 8 -> "8" [] d = 9 -> "9"

DigitChars == {"0", "1", "2", "3", "4", "5", "6", "7", "8", "9"}

DigitValue(c) == CHOOSE d \in 0..9 : Digit(d) = c

RECURSIVE NatToString(_)
NatToString(n) == IF n < 10 THEN <<Digit(n)>>
                  ELSE NatToString(n \div 10) \o <<Digit(n % 10)>>

\* Number::toString of an integral number
IntToString(n) == IF n < 0 THEN <<"-">> \o NatToString(0 - n) ELSE NatToString(n)

(***************************************************************************)
(* JavaScript values.  kind is one of number, string, boolean, object,     *)
(* null, undefined; fields is the ordered list of <<key, value>> of an     *)
(* object (Object.entries order).  NaN is the number whose str is "NaN".   *)
(* The numbers of the model are the integers and NaN.                      *)
(***************************************************************************)
Val(k, n, s, b, f) == [kind |-> k, num |-> n, str |-> s, bool |-> b, fields |-> f]
Num(n) == Val("number", n, <<>>, FALSE, <<>>)
NaN == Val("number", 0, <<"N", "a", "N">>, FALSE, <<>>)
Str(s) == Val("string", 0, s, FALSE, <<>>)
Bool(b) == Val("boolean", 0, <<>>, b, <<>>)
Obj(f) == Val("object", 0, <<>>, FALSE, f)
Null == Val("null", 0, <<>>, FALSE, <<>>)
Undefined == Val("undefined", 0, <<>>, FALSE, <<>>)

IsUndefined(v) == v.kind = "undefined"

\* typeof: null is an object
TypeOf(v) == IF v.kind = "null" THEN "object" ELSE v.kind

\* `${v}`
TemplateString(v) ==
    CASE v.kind = "number" -> IF v.str # <<>> THEN v.str ELSE IntToString(v.num)
      [] v.kind = "string" -> v.str
      [] v.kind = "boolean" -> IF v.bool THEN <<"t", "r", "u", "e">>
                               ELSE <<"f", "a", "l", "s", "e">>
      [] v.kind = "null" -> <<"n", "u", "l", "l">>
      [] v.kind = "undefined" -> <<"u", "n", "d", "e", "f", "i", "n", "e", "d">>
      [] v.kind = "object" -> <<"[", "o", "b", "j", "e", "c", "t", " ",
                                "O", "b", "j", "e", "c", "t", "]">>

(***************************************************************************)
(* Timestamps.  An ISO-8601 string is [fmt |-> "iso", ms |-> t], the time  *)
(* column of a query row is [fmt |-> "timestream", ms |-> t]; a Date and   *)
(* the result of Date.parse are the milliseconds t.                        *)
(***************************************************************************)
Iso(t) == [fmt |-> "iso", ms |-> t]
DateParse(s) == s.ms
ToISOString(t) == Iso(t)

(***************************************************************************)
(* The glob filter, index.js:133-161.                                      *)
(***************************************************************************)
\* String.prototype.replace with a global one-character pattern
RECURSIVE ReplaceAll(_, _, _)
ReplaceAll(s, c, r) ==
    IF s = <<>> THEN <<>>
    ELSE (IF Head(s) = c THEN r ELSE <<Head(s)>>) \o ReplaceAll(Tail(s), c, r)

\* the glob without the escaping of '.': what index.js:138 guards against
GlobToRegexSourceUnescaped(path) ==
    <<"^">> \o ReplaceAll(path, "*", <<".", "*">>) \o <<"$">>

\* index.js:136-142: '.' becomes '\.', then '*' becomes '.*', then ^...$
GlobToRegexSource(path) ==
    LET escaped == ReplaceAll(path, ".", <<"\\", ".">>)
        starred == ReplaceAll(escaped, "*", <<".", "*">>)
    IN  <<"^">> \o starred \o <<"$">>

\* new RegExp(source): the atoms of the source.  t is bol (^), eol ($), lit
\* (a character, also an escaped one) or any (an unescaped '.'); star marks
\* an atom followed by '*'.
Atom(t, c, star) == [t |-> t, c |-> c, star |-> star]

RECURSIVE RegExpAtoms(_)
RegExpAtoms(src) ==
    IF src = <<>> THEN <<>>
    ELSE IF Head(src) = "^" THEN <<Atom("bol", "", FALSE)>> \o RegExpAtoms(Tail(src))
    ELSE IF Head(src) = "$" THEN <<Atom("eol", "", FALSE)>> \o RegExpAtoms(Tail(src))
    ELSE LET escaped == Head(src) = "\\" /\ Len(src) >= 2
             width == IF escaped THEN 2 ELSE 1
             kind == IF ~escaped /\ Head(src) = "." THEN "any" ELSE "lit"
             char == IF escaped THEN src[2] ELSE Head(src)
             star == Len(src) > width /\ src[width + 1] = "*"
             used == IF star THEN width + 1 ELSE width
         IN  <<Atom(kind, char, star)>> \o RegExpAtoms(SubSeq(src, used + 1, Len(src)))

\* '.' matches every character but a line terminator
LineTerminators == {"\n", "\r"}
AtomMatches(a, c) == IF a.t = "any" THEN c \notin LineTerminators ELSE c = a.c

\* the atoms from index ai on match s from position si on
RECURSIVE MatchFrom(_, _, _, _)
MatchFrom(atoms, ai, s, si) ==
    IF ai > Len(atoms) THEN TRUE
    ELSE LET a == atoms[ai] IN
         CASE a.t = "bol" -> si = 1 /\ MatchFrom(atoms, ai + 1, s, si)
           [] a.t = "eol" -> si = Len(s) + 1 /\ MatchFrom(atoms, ai + 1, s, si)
           [] a.t \in {"lit", "any"} /\ a.star ->
                \E k \in si..(Len(s) + 1) :
                    /\ \A j \in si..(k - 1) : AtomMatches(a, s[j])
                    /\ MatchFrom(atoms, ai + 1, s, k)
           [] OTHER -> /\ si <= Len(s)
                       /\ AtomMatches(a, s[si])
                       /\ MatchFrom(atoms, ai + 1, s, si + 1)

\* String.prototype.search(re): the index of the first match, or -1.  search
\* starts at 0 whatever the 'g' flag and lastIndex of re.
Search(s, atoms) ==
    LET starts == {k \in 1..(Len(s) + 1) : MatchFrom(atoms, 1, s, k)}
    IN  IF starts = {} THEN -1
        ELSE (CHOOSE k \in starts : \A m \in starts : k <= m) - 1

\* index.js:134-146: the regexes of options.filter_list
Regexes(options) ==
    [i \in 1..Len(options.filter_list) |->
        RegExpAtoms(GlobToRegexSource(options.filter_list[i]))]

\* index.js:147-160: the function _construct_filter_function returns
FilterFunction(options, value) ==
    LET regexes == Regexes(options) IN
    IF options.filter_list_type = "include"
    THEN \E i \in 1..Len(regexes) : Search(value.path, regexes[i]) # -1
    ELSE \A i \in 1..Len(regexes) : Search(value.path, regexes[i]) = -1

(***************************************************************************)
(* The batch, index.js:163-211.  batch_of_points is an object used as a    *)
(* map from path to point; its own keys are kept in insertion order, so    *)
(* it is the sequence of its points, no two of one name.                   *)
(***************************************************************************)
VesselsSelf == <<"v", "e", "s", "s", "e", "l", "s", ".", "s", "e", "l", "f">>
VesselsDot == <<"v", "e", "s", "s", "e", "l", "s", ".">>
SelfId == <<"u", "r", "n", ":", "1">>      \* app.selfId

\* index.js:206, map[point.name] = point
BatchSet(map, point) ==
    IF \E i \in 1..Len(map) : map[i].name = point.name
    THEN LET i == CHOOSE i \in 1..Len(map) : map[i].name = point.name
         IN  [map EXCEPT ![i] = point]
    ELSE Append(map, point)

\* index.js:205-208
RECURSIVE ReducePoints(_, _)
ReducePoints(points, map) ==
    IF points = <<>> THEN map
    ELSE ReducePoints(Tail(points), BatchSet(map, Head(points)))

\* index.js:189-201: the points of one update
UpdatePoints(options, update) ==
    LET Keep(v) == FilterFunction(options, v)
        kept == SelectSeq(update.values, Keep)
    IN  [i \in 1..Len(kept) |->
            [name |-> kept[i].path, value |-> kept[i].value,
             timestamp |-> DateParse(update.timestamp)]]

\* a reduce that stops after the first update of the delta
ReduceUpdatesFirstOnly(options, updates, batch) ==
    IF updates = <<>> \/ ~Head(updates).has_values THEN batch
    ELSE ReducePoints(UpdatePoints(options, Head(updates)), batch)

\* index.js:184-209
RECURSIVE ReduceUpdates(_, _, _)
ReduceUpdates(options, updates, batch) ==
    IF updates = <<>> THEN batch
    ELSE LET update == Head(updates)
             next == IF ~update.has_values THEN batch
                     ELSE ReducePoints(UpdatePoints(options, update), batch)
         IN  ReduceUpdates(options, Tail(updates), next)

\* the function of the write-only variant's shape: a discarded delta loses the batch
AddDeltaToBatchLosing(options, delta, batch_of_points) ==
    IF delta.context # VesselsSelf /\ delta.context # VesselsDot \o SelfId THEN <<>>
    ELSE IF ~delta.has_updates THEN <<>>
    ELSE ReduceUpdates(options, delta.updates, batch_of_points)

\* index.js:167-210: the function _add_delta_to_batch returns
AddDeltaToBatch(options, delta, batch_of_points) ==
    IF delta.context # VesselsSelf /\ delta.context # VesselsDot \o SelfId
    THEN batch_of_points
    ELSE IF ~delta.has_updates THEN batch_of_points
    ELSE ReduceUpdates(options, delta.updates, batch_of_points)

(***************************************************************************)
(* Publication, index.js:32-131.                                           *)
(***************************************************************************)
\* index.js:32-45, _value_to_type; the third test compares typeof with 'bool'
ValueToType(point) ==
    IF TypeOf(point.value) = "string" THEN "VARCHAR"
    ELSE IF TypeOf(point.value) = "number" THEN "DOUBLE"
    ELSE IF TypeOf(point.value) = "bool" THEN "BOOLEAN"
    ELSE "VARCHAR"

\* index.js:63-68
HasProperValues(point) == ~IsUndefined(point.value)

\* an expansion that keeps the composite point beside its sub-fields
ExpandPointKeeping(point) ==
    IF TypeOf(point.value) = "object"
    THEN <<point>> \o
         [i \in 1..Len(point.value.fields) |->
            [name |-> point.name \o Dot \o point.value.fields[i][1],
             value |-> point.value.fields[i][2],
             timestamp |-> point.timestamp]]
    ELSE <<point>>

\* index.js:76-91: the list a point is mapped to (Object.entries(null) throws,
\* see PublishThrows)
ExpandPoint(point) ==
    IF TypeOf(point.value) = "object"
    THEN [i \in 1..Len(point.value.fields) |->
            [name |-> point.name \o Dot \o point.value.fields[i][1],
             value |-> point.value.fields[i][2],
             timestamp |-> point.timestamp]]
    ELSE <<point>>

\* index.js:95-102
Record(point) ==
    [MeasureName |-> point.name,
     MeasureValue |-> TemplateString(point.value),
     MeasureValueType |-> ValueToType(point),
     Time |-> IntToString(point.timestamp)]

\* index.js:78: Object.entries of null raises a TypeError
PublishThrows(batch_of_points) ==
    \E i \in 1..Len(batch_of_points) :
        HasProperValues(batch_of_points[i]) /\ batch_of_points[i].value.kind = "null"

\* index.js:61-117: the parameters of the write call
WriteParams(batch_of_points, database, table) ==
    LET proper == SelectSeq(batch_of_points, HasProperValues)
        batch == ConcatAll([i \in 1..Len(proper) |-> ExpandPoint(proper[i])])
        records == [i \in 1..Len(batch) |-> Record(batch[i])]
    IN  [DatabaseName |-> database,
         TableName |-> table,
         Records |-> records,
         CommonAttributes |->
            [TimeUnit |-> "MILLISECONDS",
             Dimensions |-> <<[Name |-> "context", Value |-> SelfId]>>]]

NoParams == [DatabaseName |-> "undefined", TableName |-> "undefined", Records |-> <<>>,
             CommonAttributes |-> [TimeUnit |-> "MILLISECONDS", Dimensions |-> <<>>]]

\* a publication that issues the write call whatever the number of records
PublishToTimestreamAlways(batch_of_points, database, table) ==
    IF PublishThrows(batch_of_points)
    THEN [threw |-> TRUE, wrote |-> FALSE, params |-> NoParams]
    ELSE [threw |-> FALSE, wrote |-> TRUE,
          params |-> WriteParams(batch_of_points, database, table)]

\* index.js:48-131, _publish_to_timstream: whether it raised, whether it called
\* writeRecords, and with which parameters
PublishToTimestream(batch_of_points, database, table) ==
    IF PublishThrows(batch_of_points)
    THEN [threw |-> TRUE, wrote |-> FALSE, params |-> NoParams]
    ELSE LET params == WriteParams(batch_of_points, database, table)
         IN  IF Len(params.Records) > 0
             THEN [threw |-> FALSE, wrote |-> TRUE, params |-> params]
             ELSE [threw |-> FALSE, wrote |-> FALSE, params |-> NoParams]

(***************************************************************************)
(* Inputs of the publish side.                                             *)
(***************************************************************************)
PathET == <<"e", ".", "t">>
PathAB == <<"a", ".", "b">>
PathA == <<"a">>

Entry(p, v) == [path |-> p, value |-> v]

Composite == Obj(<<<<<<"b">>, Num(5)>>, <<<<"c">>, Bool(TRUE)>>, <<<<"d">>, Null>>>>)

\* value entries used alone in an update
Entries ==
    { Entry(PathET, Num(300)), Entry(PathET, Num(310)), Entry(PathET, Undefined),
      Entry(PathAB, Str(<<"x">>)), Entry(PathAB, Bool(TRUE)), Entry(PathAB, Null),
      Entry(PathA, Composite) }

\* value entries combined into updates of two entries and deltas of two updates
PairEntries == { Entry(PathET, Num(310)), Entry(PathAB, Bool(TRUE)) }

UpdateOf(ts, values) == [timestamp |-> ts, has_values |-> TRUE, values |-> values]
UpdateWithoutValues == [timestamp |-> Iso(1000), has_values |-> FALSE, values |-> <<>>]

DeltaOf(context, updates) == [context |-> context, has_updates |-> TRUE, updates |-> updates]

SingleUpdates ==
    { UpdateOf(Iso(1000), <<e>>) : e \in Entries }
    \cup { UpdateOf(Iso(2000), <<Entry(PathET, Num(300))>>) }
PairUpdates == { UpdateOf(Iso(1000), <<e1, e2>>) : e1 \in PairEntries, e2 \in PairEntries }
PairDeltaUpdates ==
    { <<UpdateOf(Iso(1000), <<e1>>), UpdateOf(Iso(2000), <<e2>>)>> :
        e1 \in PairEntries, e2 \in PairEntries }

Deltas ==
    { DeltaOf(VesselsSelf, <<u>>) : u \in SingleUpdates \cup PairUpdates }
    \cup { DeltaOf(VesselsSelf, us) : us \in PairDeltaUpdates }
    \cup { DeltaOf(VesselsDot \o SelfId, <<UpdateOf(Iso(2000), <<Entry(PathAB, Str(<<"x">>))>>)>>) }
    \cup { DeltaOf(VesselsDot \o <<"x">>, <<UpdateOf(Iso(2000), <<Entry(PathET, Num(310))>>)>>) }
    \cup { DeltaOf(SelfId, <<UpdateOf(Iso(2000), <<Entry(PathET, Num(310))>>)>>) }
    \cup { [context |-> VesselsSelf, has_updates |-> FALSE, updates |-> <<>>] }
    \cup { DeltaOf(VesselsSelf, <<UpdateWithoutValues>>) }
    \cup { DeltaOf(VesselsSelf, <<UpdateWithoutValues,
                                  UpdateOf(Iso(2000), <<Entry(PathET, Num(310))>>)>>) }

Options(type, list) ==
    [database |-> "db", table |-> "tbl", write_interval |-> 60,
     filter_list_type |-> type, filter_list |-> list]

OptionsSet ==
    { Options("exclude", <<>>),
      Options("exclude", <<<<"a", ".", "*">>>>),
      Options("include", <<<<"e", ".", "*">>, <<"a">>>>),
      Options("include", <<>>) }

(***************************************************************************)
(* The plugin: start, stop, the delta handler and the publish timer,       *)
(* index.js:213-278.  A closure that is neither registered on the bus nor  *)
(* owns an active timer can no longer act and is dropped.                  *)
(***************************************************************************)
NoFunction == [i \in {} |-> 0]

FreshId(f) == CHOOSE i \in 1..(Cardinality(DOMAIN f) + 1) : i \notin DOMAIN f

Extend(f, id, x) == [i \in DOMAIN f \cup {id} |-> IF i = id THEN x ELSE f[i]]

\* the value entries of a delta the handler looks at, with their update's
\* timestamp, in the order it looks at them (observation)
RECURSIVE UpdatesEntries(_)
UpdatesEntries(updates) ==
    IF updates = <<>> THEN <<>>
    ELSE LET u == Head(updates)
             here == IF u.has_values
                     THEN [i \in 1..Len(u.values) |->
                            [path |-> u.values[i].path, value |-> u.values[i].value,
                             timestamp |-> u.timestamp]]
                     ELSE <<>>
         IN  here \o UpdatesEntries(Tail(updates))

IsSelfContext(delta) == delta.context \in {VesselsSelf, VesselsDot \o SelfId}

DeltaEntries(delta) ==
    IF IsSelfContext(delta) /\ delta.has_updates THEN UpdatesEntries(delta.updates)
    ELSE <<>>

Init ==
    /\ instances = NoFunction
    /\ _handle_delta = 0
    /\ _publish_interval = 0
    /\ _database_name = "undefined"
    /\ _table_name = "undefined"
    /\ _streamers = NoFunction
    /\ streams = NoFunction
    /\ queries = NoFunction
    /\ last_event = [op |-> "init"]

\* index.js:273-276: the state stop leaves, which is also the state before
\* the first start
Stopped == _handle_delta = 0 /\ _publish_interval = 0

\* index.js:237-257 with _create_handle_delta, index.js:213-235
Start(options) ==
    LET id == FreshId(instances) IN
    /\ _database_name' = options.database
    /\ _table_name' = options.table
    /\ instances' = Extend(instances, id,
                           [options |-> options, batch_of_points |-> <<>>,
                            listening |-> TRUE, timer |-> TRUE, absorbed |-> <<>>,
                            write_failed |-> FALSE])
    /\ _handle_delta' = id
    /\ _publish_interval' = id
    /\ last_event' = [op |-> "start", options |-> options]
    /\ UNCHANGED history_vars

\* index.js:259-278
Stop ==
    LET stopped == [i \in DOMAIN instances |->
                      [instances[i] EXCEPT
                          !.listening = IF i = _handle_delta THEN FALSE ELSE @,
                          !.timer = IF i = _publish_interval THEN FALSE ELSE @]]
        live == {i \in DOMAIN instances : stopped[i].listening \/ stopped[i].timer}
    IN
    /\ instances' = [i \in live |-> stopped[i]]
    /\ _database_name' = "undefined"
    /\ _table_name' = "undefined"
    /\ _handle_delta' = 0
    /\ _publish_interval' = 0
    /\ last_event' = [op |-> "stop"]
    /\ UNCHANGED history_vars

\* index.js:232-234: the bus delivers a delta to every registered handler
HandleDelta(delta) ==
    /\ \E i \in DOMAIN instances : instances[i].listening
    /\ \A i \in DOMAIN instances :
          instances[i].listening =>
              Len(instances[i].absorbed) + Len(DeltaEntries(delta)) <= MaxAbsorbed
    /\ instances' =
          [i \in DOMAIN instances |->
              IF instances[i].listening
              THEN [instances[i] EXCEPT
                      !.batch_of_points =
                          AddDeltaToBatch(instances[i].options, delta, @),
                      !.absorbed = @ \o DeltaEntries(delta)]
              ELSE instances[i]]
    /\ last_event' = [op |-> "delta", delta |-> delta]
    /\ UNCHANGED <<_handle_delta, _publish_interval, _database_name, _table_name>>
    /\ UNCHANGED history_vars

\* a tick that keeps the batch for a later attempt when its write failed
BatchAfterTickRollback(batch_of_points, result, write_failed) ==
    IF result.threw \/ write_failed THEN batch_of_points ELSE <<>>

\* index.js:227-228: the batch the closure holds after a tick.  When
\* _publish_to_timstream raises, the reset of index.js:228 is not reached;
\* the outcome of the write call (index.js:119-130) has no part in it.
BatchAfterTick(batch_of_points, result, write_failed) ==
    IF result.threw THEN batch_of_points ELSE <<>>

\* index.js:224-229: one firing of the publish timer of closure i, with the
\* outcome of its write call, index.js:119-130 (err is only logged).
Tick(i) ==
    /\ i \in DOMAIN instances
    /\ instances[i].timer
    /\ LET result == PublishToTimestream(instances[i].batch_of_points,
                                         _database_name, _table_name)
       IN  \E write_failed \in (IF result.wrote THEN BOOLEAN ELSE {FALSE}) :
           /\ last_event' = [op |-> "tick", id |-> i,
                             options |-> instances[i].options,
                             batch_of_points |-> instances[i].batch_of_points,
                             absorbed |-> instances[i].absorbed,
                             after_failure |-> instances[i].write_failed,
                             write_failed |-> write_failed,
                             result |-> result]
           /\ instances' =
                [instances EXCEPT
                    ![i].batch_of_points = BatchAfterTick(@, result, write_failed),
                    ![i].absorbed = <<>>,
                    ![i].write_failed = write_failed]
    /\ UNCHANGED <<_handle_delta, _publish_interval, _database_name, _table_name>>
    /\ UNCHANGED history_vars

Next ==
    \/ \E options \in OptionsSet : _handle_delta = 0 /\ Start(options)
    \/ Stop
    \/ \E delta \in Deltas : HandleDelta(delta)
    \/ \E i \in DOMAIN instances : Tick(i)

Spec == Init /\ [][Next]_vars

(***************************************************************************)
(* Claims about the publish side, checked under Spec.                      *)
(***************************************************************************)
Range(f) == {f[i] : i \in DOMAIN f}

IsTick == last_event.op = "tick"

\* the records of the last tick's write call as <<name, value, time>>
WrittenTriples ==
    {<<r.MeasureName, r.MeasureValue, r.Time>> : r \in Range(last_event.result.params.Records)}

\* what a value entry is to be published as: one record per sub-field of a
\* composite value, none for an undefined value, one record otherwise
EntryTriples(e) ==
    LET time == IntToString(DateParse(e.timestamp)) IN
    IF e.value.kind = "undefined" THEN {}
    ELSE IF e.value.kind = "object"
    THEN {<<e.path \o Dot \o f[1], TemplateString(f[2]), time>> : f \in Range(e.value.fields)}
    ELSE {<<e.path, TemplateString(e.value), time>>}

LastEntry(log, path) ==
    log[CHOOSE i \in DOMAIN log :
            /\ log[i].path = path
            /\ \A j \in DOMAIN log : log[j].path = path => j <= i]

AcceptedPaths(options, log) ==
    {log[i].path : i \in {j \in DOMAIN log : FilterFunction(options, [path |-> log[j].path])}}

ExpectedTriples(options, log) ==
    UNION {EntryTriples(LastEntry(log, p)) : p \in AcceptedPaths(options, log)}

ExpectedCount(options, log) ==
    Cardinality(UNION {{<<p, t>> : t \in EntryTriples(LastEntry(log, p))} :
                            p \in AcceptedPaths(options, log)})

\* C1: at every publish tick the write carries, for each filter-accepted path
\* of the value entries absorbed since the previous tick, the value and the
\* timestamp of the last such entry and nothing else: the write is issued
\* when there is something to carry, and it carries one record per expected
\* record.
C1_LastValuePublished ==
    IsTick =>
        LET expected == ExpectedTriples(last_event.options, last_event.absorbed) IN
        /\ expected # {} => last_event.result.wrote
        /\ WrittenTriples = expected
        /\ Len(last_event.result.params.Records)
              = ExpectedCount(last_event.options, last_event.absorbed)

\* a delta the handler discards: foreign context, no updates, or no update
\* with values
IsDiscarded(delta) ==
    \/ ~IsSelfContext(delta)
    \/ ~delta.has_updates
    \/ \A i \in DOMAIN delta.updates : ~delta.updates[i].has_values

\* the closures without the observation of what they absorbed
Closures ==
    [i \in DOMAIN instances |->
        [options |-> instances[i].options,
         batch_of_points |-> instances[i].batch_of_points,
         listening |-> instances[i].listening,
         timer |-> instances[i].timer]]

\* C3: handling a delta of a foreign context, a delta without updates or a
\* delta whose updates have no values leaves every batch, every handler
\* registration and every publish timer as it was.
C3_DiscardedDeltaKeepsBatch ==
    [][(last_event'.op = "delta" /\ IsDiscarded(last_event'.delta))
            => Closures' = Closures]_vars

\* a batch holding points was offered a discarded delta
C3_Witness ==
    /\ last_event.op = "delta"
    /\ IsDiscarded(last_event.delta)
    /\ \E i \in DOMAIN instances : instances[i].batch_of_points # <<>>

\* the points the records of the last tick were made from, in record order
PublishedPoints ==
    LET proper == SelectSeq(last_event.batch_of_points, HasProperValues)
    IN  ConcatAll([i \in 1..Len(proper) |-> ExpandPoint(proper[i])])

InferredType(v) ==
    CASE v.kind = "string" -> "VARCHAR"
      [] v.kind = "number" -> "DOUBLE"
      [] v.kind = "boolean" -> "BOOLEAN"
      [] OTHER -> "VARCHAR"

\* C4: every record of a write has the type of its value's kind: VARCHAR for
\* a string, DOUBLE for a number, BOOLEAN for a boolean, VARCHAR otherwise.
C4_ValueTypeInference ==
    (IsTick /\ last_event.result.wrote) =>
        \A i \in DOMAIN last_event.result.params.Records :
            last_event.result.params.Records[i].MeasureValueType
                = InferredType(PublishedPoints[i].value)

\* the records a batch point is to yield, as <<name, value, time>>
PointTriples(point) ==
    IF point.value.kind = "object"
    THEN [i \in DOMAIN point.value.fields |->
            <<point.name \o Dot \o point.value.fields[i][1],
              TemplateString(point.value.fields[i][2]),
              IntToString(point.timestamp)>>]
    ELSE <<<<point.name, TemplateString(point.value), IntToString(point.timestamp)>>>>

C6_EmptyBatchNoWrite ==
    IsTick =>
        /\ (\A i \in DOMAIN last_event.batch_of_points :
                IsUndefined(last_event.batch_of_points[i].value))
              => ~last_event.result.wrote
        /\ AcceptedPaths(last_event.options, last_event.absorbed) = {}
              => ~last_event.result.wrote

\* a tick found a batch that holds points, all of undefined value
C6_Witness ==
    /\ IsTick
    /\ ~last_event.result.wrote
    /\ last_event.batch_of_points # <<>>
    /\ \A i \in DOMAIN last_event.batch_of_points :
          IsUndefined(last_event.batch_of_points[i].value)

(***************************************************************************)
(* The filter predicate on its own: SpecFilter applies the function that   *)
(* _construct_filter_function returns to every filter configuration and    *)
(* path within the bounds.                                                 *)
(***************************************************************************)
SeqsUpTo(alphabet, n) == UNION {[1..k -> alphabet] : k \in 0..n}

Globs == SeqsUpTo({"a", ".", "*"}, MaxGlobLen)
FilterLists == {<<>>} \cup {<<g>> : g \in Globs} \cup {<<g, h>> : g \in Globs, h \in Globs}
FilterPaths == SeqsUpTo({"a", "."}, MaxPathLen)

FilterInputs ==
    {[op |-> "filter_input", options |-> Options(type, list), path |-> path] :
        type \in {"include", "exclude"}, list \in FilterLists, path \in FilterPaths}

InitFilter ==
    /\ instances = NoFunction
    /\ _handle_delta = 0
    /\ _publish_interval = 0
    /\ _database_name = "undefined"
    /\ _table_name = "undefined"
    /\ _streamers = NoFunction
    /\ streams = NoFunction
    /\ queries = {}
    /\ last_event \in FilterInputs

ApplyFilter ==
    /\ last_event.op = "filter_input"
    /\ last_event' = [op |-> "filter",
                      options |-> last_event.options,
                      path |-> last_event.path,
                      accepted |-> FilterFunction(last_event.options,
                                                  [path |-> last_event.path])]
    /\ UNCHANGED publish_vars
    /\ UNCHANGED history_vars

SpecFilter == InitFilter /\ [][ApplyFilter]_vars

\* a glob matches a whole path: '*' stands for any run of characters, every
\* other character for itself
RECURSIVE GlobMatches(_, _)
GlobMatches(glob, path) ==
    IF glob = <<>> THEN path = <<>>
    ELSE IF Head(glob) = "*"
    THEN GlobMatches(Tail(glob), path) \/ (path # <<>> /\ GlobMatches(glob, Tail(path)))
    ELSE path # <<>> /\ Head(path) = Head(glob) /\ GlobMatches(Tail(glob), Tail(path))

\* C2: the filter accepts a path in include mode iff some pattern of the
\* list matches the whole path, and in exclude mode iff none does; so the
\* empty list accepts nothing in include mode and everything in exclude mode.
C2_FilterAccepts ==
    last_event.op = "filter" =>
        LET list == last_event.options.filter_list
            some == \E i \in DOMAIN list : GlobMatches(list[i], last_event.path)
        IN  /\ last_event.options.filter_list_type = "include" => (last_event.accepted <=> some)
            /\ last_event.options.filter_list_type = "exclude" => (last_event.accepted <=> ~some)
            /\ list = <<>> =>
                  (last_event.accepted <=> last_event.options.filter_list_type = "exclude")

\* an include filter accepted a dotted path by its second pattern, one with
\* a '*' and a '.'
C2_Witness ==
    /\ last_event.op = "filter"
    /\ last_event.options.filter_list_type = "include"
    /\ last_event.accepted
    /\ Len(last_event.options.filter_list) = 2
    /\ ~GlobMatches(last_event.options.filter_list[1], last_event.path)
    /\ last_event.options.filter_list[2] = <<".", "*">>
    /\ Len(last_event.path) = 3

(***************************************************************************)
(* Reconstruction of a query response, parse_timestream.js.  A cell of a   *)
(* row is its ScalarValue: a string, or undefined for {NullValue: true}.   *)
(* The time column holds a timestamp with nanosecond digits; it is the     *)
(* decimal count of nanoseconds, of which new Date() keeps the             *)
(* milliseconds.  Column indexes are 1-based, 0 is findIndex's -1.         *)
(***************************************************************************)
NavigationPosition == <<"n", "a", "v", "i", "g", "a", "t", "i", "o", "n", ".",
                        "p", "o", "s", "i", "t", "i", "o", "n">>
LatitudeKey == <<"l", "a", "t", "i", "t", "u", "d", "e">>
LongitudeKey == <<"l", "o", "n", "g", "i", "t", "u", "d", "e">>
NavigationPositionLatitude == NavigationPosition \o Dot \o LatitudeKey
NavigationPositionLongitude == NavigationPosition \o Dot \o LongitudeKey

\* the value of a run of decimal digits
RECURSIVE ParseNat(_)
ParseNat(s) == IF s = <<>> THEN 0
               ELSE 10 * ParseNat(SubSeq(s, 1, Len(s) - 1)) + DigitValue(s[Len(s)])

\* the longest prefix of s made of digits
RECURSIVE DigitPrefix(_)
DigitPrefix(s) == IF s # <<>> /\ Head(s) \in DigitChars
                  THEN <<Head(s)>> \o DigitPrefix(Tail(s)) ELSE <<>>

\* parseFloat of a string: sign and digits; of the fraction only zeros occur
\* in the model, which add nothing to the number
ParseFloat(s) ==
    LET negative == s # <<>> /\ Head(s) = "-"
        digits == DigitPrefix(IF negative THEN Tail(s) ELSE s)
    IN  IF digits = <<>> THEN NaN
        ELSE Num(IF negative THEN 0 - ParseNat(digits) ELSE ParseNat(digits))

\* ToBoolean
Truthy(v) ==
    CASE v.kind = "undefined" -> FALSE
      [] v.kind = "null" -> FALSE
      [] v.kind = "string" -> v.str # <<>>
      [] v.kind = "number" -> v.num # 0 /\ v.str = <<>>
      [] v.kind = "boolean" -> v.bool
      [] v.kind = "object" -> TRUE

SubMillisecondDigits == <<"0", "0", "0", "0", "0", "0">>

\* new Date(time cell).getTime(): the nanosecond digits are cut off
NewDate(cell) == ParseNat(SubSeq(cell.str, 1, Len(cell.str) - Len(SubMillisecondDigits)))

\* parse_timestream.js:80-82
GetColumnIdx(columns, name) ==
    IF \E i \in DOMAIN columns : columns[i].Name = name
    THEN CHOOSE i \in DOMAIN columns :
            columns[i].Name = name /\ \A j \in DOMAIN columns : columns[j].Name = name => i <= j
    ELSE 0

\* parse_timestream.js:84-86; reading data[-1].ScalarValue raises
GetFieldThrows(i, data) == i \notin DOMAIN data
GetField(i, data) == data[i]

\* the value with a double cell of zero taken for absent
GetValueZeroAbsent(columns, data) ==
    LET value_double == GetField(GetColumnIdx(columns, "measure_value::double"), data)
        value_varchar == GetField(GetColumnIdx(columns, "measure_value::varchar"), data)
    IN  IF Truthy(value_double) /\ ParseFloat(value_double.str) # Num(0)
        THEN ParseFloat(value_double.str)
        ELSE value_varchar

\* parse_timestream.js:93-102
GetValue(columns, data) ==
    LET value_double == GetField(GetColumnIdx(columns, "measure_value::double"), data)
        value_varchar == GetField(GetColumnIdx(columns, "measure_value::varchar"), data)
    IN  IF Truthy(value_double) THEN ParseFloat(value_double.str) ELSE value_varchar

\* parse_timestream.js:111-127 raises when a column is missing or the time
\* cell is no date (toISOString of an invalid Date)
ParseThrows(columns, data) ==
    \/ \E name \in {"measure_name", "time", "measure_value::double", "measure_value::varchar"} :
          GetFieldThrows(GetColumnIdx(columns, name), data)
    \/ GetField(GetColumnIdx(columns, "time"), data).kind # "string"

\* parse_timestream.js:111-127
Parse(columns, data) ==
    [timestamp |-> ToISOString(NewDate(GetField(GetColumnIdx(columns, "time"), data))),
     values |-> <<[path |-> GetField(GetColumnIdx(columns, "measure_name"), data),
                   value |-> GetValue(columns, data)]>>]

\* Array.prototype.find: the first element of the path, or undefined
FindPath(values, path) ==
    IF \E i \in DOMAIN values : values[i].path = Str(path)
    THEN LET i == CHOOSE i \in DOMAIN values :
                    /\ values[i].path = Str(path)
                    /\ \A j \in DOMAIN values : values[j].path = Str(path) => i <= j
         IN  [found |-> TRUE, value |-> values[i].value]
    ELSE [found |-> FALSE, value |-> Undefined]

\* parse_timestream.js:168
FoundLatitude(values) ==
    LET latitude == FindPath(values, NavigationPositionLatitude)
    IN  latitude.found /\ ~IsUndefined(latitude.value)

\* parse_timestream.js:169: the trace message reads longitude.value, which
\* raises when no longitude was found
LiftValuesThrows(values) ==
    FoundLatitude(values) /\ ~FindPath(values, NavigationPositionLongitude).found

\* parse_timestream.js:162-183: the values of one update after recombination
LiftedValues(values) ==
    IF FoundLatitude(values)
    THEN LET NotLatitude(v) == v.path # Str(NavigationPositionLatitude)
             NotLongitude(v) == v.path # Str(NavigationPositionLongitude)
             others == SelectSeq(SelectSeq(values, NotLatitude), NotLongitude)
         IN  Append(others,
                [path |-> Str(NavigationPosition),
                 value |-> Obj(<<<<LatitudeKey, FindPath(values, NavigationPositionLatitude).value>>,
                                 <<LongitudeKey, FindPath(values, NavigationPositionLongitude).value>>>>)])
    ELSE values

\* _.groupBy(parsed_updates, u => u.timestamp): the timestamps in the order of
\* their first update
RECURSIVE GroupKeys(_, _)
GroupKeys(parsed_updates, seen) ==
    IF parsed_updates = <<>> THEN <<>>
    ELSE IF Head(parsed_updates).timestamp \in seen
         THEN GroupKeys(Tail(parsed_updates), seen)
         ELSE <<Head(parsed_updates).timestamp>>
                \o GroupKeys(Tail(parsed_updates), seen \cup {Head(parsed_updates).timestamp})

\* parse_timestream.js:154-158: the flattened values of the updates of one timestamp
GroupValues(parsed_updates, timestamp) ==
    LET InGroup(u) == u.timestamp = timestamp
        update_list == SelectSeq(parsed_updates, InGroup)
    IN  ConcatAll([i \in DOMAIN update_list |-> update_list[i].values])

\* parse_timestream.js:154-192
LiftValues(parsed_updates, timestamp) ==
    [source |-> [label |-> "signalk-to-timestream"],
     timestamp |-> timestamp,
     values |-> LiftedValues(GroupValues(parsed_updates, timestamp))]

NoDelta == [context |-> <<>>, updates |-> <<>>]

\* parse_timestream.js:195-205: whether the reconstruction raised, and the
\* delta it returned
ParseTimestream(self_id, result) ==
    IF \E r \in DOMAIN result.Rows : ParseThrows(result.ColumnInfo, result.Rows[r].Data)
    THEN [threw |-> TRUE, delta |-> NoDelta]
    ELSE LET parsed_updates == [r \in DOMAIN result.Rows |->
                                    Parse(result.ColumnInfo, result.Rows[r].Data)]
             keys == GroupKeys(parsed_updates, {})
         IN  IF \E k \in DOMAIN keys : LiftValuesThrows(GroupValues(parsed_updates, keys[k]))
             THEN [threw |-> TRUE, delta |-> NoDelta]
             ELSE [threw |-> FALSE,
                   delta |-> [context |-> VesselsDot \o self_id,
                              updates |-> [k \in DOMAIN keys |->
                                              LiftValues(parsed_updates, keys[k])]]]

(***************************************************************************)
(* The storage service as the code meets it: the rows of a response in the *)
(* shape documented at parse_timestream.js:19-76 (a DOUBLE measure comes   *)
(* back in measure_value::double, written with a fraction, a VARCHAR       *)
(* measure in measure_value::varchar, the other cell null), and what the   *)
(* records of a write call (index.js:95-117) are stored as.  A stored row  *)
(* is [name, value, time]: value a number or a string, time milliseconds.  *)
(***************************************************************************)
Column(name) == [Name |-> name]

ColumnLayouts ==
    { <<Column("context"), Column("measure_value::double"), Column("measure_value::varchar"),
        Column("measure_name"), Column("time")>>,
      <<Column("measure_name"), Column("time"), Column("measure_value::varchar"),
        Column("context"), Column("measure_value::double")>> }

RowData(columns, row) ==
    [i \in DOMAIN columns |->
        CASE columns[i].Name = "context" -> Str(SelfId)
          [] columns[i].Name = "measure_value::double" ->
                IF row.value.kind = "number"
                THEN Str(IntToString(row.value.num) \o <<".", "0">>) ELSE Undefined
          [] columns[i].Name = "measure_value::varchar" ->
                IF row.value.kind = "string" THEN row.value ELSE Undefined
          [] columns[i].Name = "measure_name" -> Str(row.name)
          [] columns[i].Name = "time" -> Str(IntToString(row.time) \o SubMillisecondDigits)
          [] OTHER -> Undefined]

QueryResult(columns, rows) ==
    [ColumnInfo |-> columns,
     Rows |-> [r \in DOMAIN rows |-> [Data |-> RowData(columns, rows[r])]]]

StoredRows(params) ==
    [i \in DOMAIN params.Records |->
        [name |-> params.Records[i].MeasureName,
         value |-> CASE params.Records[i].MeasureValueType = "DOUBLE" ->
                            ParseFloat(params.Records[i].MeasureValue)
                     [] params.Records[i].MeasureValueType = "BOOLEAN" ->
                            Bool(params.Records[i].MeasureValue = <<"t", "r", "u", "e">>)
                     [] OTHER -> Str(params.Records[i].MeasureValue),
         time |-> ParseNat(params.Records[i].Time)]]

(***************************************************************************)
(* SpecParse: the reconstruction applied to the responses within the       *)
(* bounds, and to the response holding what one published position became. *)
(* A response holds one row per measure and time, in ascending time        *)
(* (ORDER BY time ASC, index.js:290).                                      *)
(***************************************************************************)
StoredRow(name, value, time) == [name |-> name, value |-> value, time |-> time]

RowTimes == {1000, 2000}

PossibleRows ==
    { StoredRow(NavigationPositionLatitude, v, t) : v \in {Num(10), Num(0)}, t \in RowTimes }
    \cup { StoredRow(NavigationPositionLongitude, Num(20), t) : t \in RowTimes }
    \cup { StoredRow(PathET, v, t) : v \in {Num(300), Str(<<"x">>)}, t \in RowTimes }

IsResponseRows(rows) ==
    \A i \in DOMAIN rows : \A j \in DOMAIN rows :
        i < j => /\ rows[i].time <= rows[j].time
                 /\ ~(rows[i].name = rows[j].name /\ rows[i].time = rows[j].time)

ResponseRows ==
    {rows \in UNION {[1..n -> PossibleRows] : n \in 0..MaxRows} : IsResponseRows(rows)}

Coordinates == {-10, 0, 10, 20}

\* the double-typed and the string-typed cell of a row: absent, or the text
\* of the scalar
DoubleCells ==
    { Undefined, Str(<<>>), Str(<<"0", ".", "0">>), Str(<<"1", "0", ".", "0">>),
      Str(<<"-", "1", "0", ".", "0">>) }

VarcharCells == { Undefined, Str(<<"x">>), Str(<<"0">>) }

\* the cells of one row, in the order of the columns
CellData(columns, double, varchar) ==
    [i \in DOMAIN columns |->
        CASE columns[i].Name = "measure_value::double" -> double
          [] columns[i].Name = "measure_value::varchar" -> varchar
          [] columns[i].Name = "measure_name" -> Str(PathET)
          [] columns[i].Name = "time" -> Str(IntToString(1000) \o SubMillisecondDigits)
          [] OTHER -> Str(SelfId)]

\* column descriptors that lack one of the four columns the mapper looks up
LogicalColumns ==
    {"measure_name", "time", "measure_value::double", "measure_value::varchar"}

IncompleteLayouts ==
    { SelectSeq(c, LAMBDA column : column.Name # name) :
        c \in ColumnLayouts, name \in LogicalColumns }

IncompleteRows ==
    { <<>>,
      <<StoredRow(PathET, Num(300), 1000)>>,
      <<StoredRow(PathET, Str(<<"x">>), 1000), StoredRow(PathAB, Num(10), 2000)>> }

ParseInputs ==
    {[op |-> "parse_input", columns |-> c, rows |-> rows] :
        c \in ColumnLayouts, rows \in ResponseRows}
    \cup
    {[op |-> "incomplete_input", columns |-> c, rows |-> rows] :
        c \in IncompleteLayouts, rows \in IncompleteRows}
    \cup
    {[op |-> "value_input", columns |-> c, double |-> d, varchar |-> v] :
        c \in ColumnLayouts, d \in DoubleCells, v \in VarcharCells}
    \cup
    {[op |-> "roundtrip_input", columns |-> c, latitude |-> a, longitude |-> b, timestamp |-> ts] :
        c \in ColumnLayouts, a \in Coordinates, b \in Coordinates, ts \in {Iso(1000), Iso(2000)}}

InitParse ==
    /\ instances = NoFunction
    /\ _handle_delta = 0
    /\ _publish_interval = 0
    /\ _database_name = "undefined"
    /\ _table_name = "undefined"
    /\ _streamers = NoFunction
    /\ streams = NoFunction
    /\ queries = NoFunction
    /\ last_event \in ParseInputs

\* parse_timestream(app.selfId, data), index.js:303
ParseResponse ==
    /\ last_event.op = "parse_input"
    /\ last_event' = [op |-> "parse",
                      columns |-> last_event.columns,
                      rows |-> last_event.rows,
                      result |-> ParseTimestream(SelfId,
                                    QueryResult(last_event.columns, last_event.rows))]
    /\ UNCHANGED publish_vars
    /\ UNCHANGED history_vars

\* a delta carrying navigation.position is absorbed into an empty batch and
\* published; the rows its records became are queried and reconstructed
RoundTrip ==
    /\ last_event.op = "roundtrip_input"
    /\ LET position == Obj(<<<<LatitudeKey, Num(last_event.latitude)>>,
                             <<LongitudeKey, Num(last_event.longitude)>>>>)
           delta == [context |-> VesselsSelf, has_updates |-> TRUE,
                     updates |-> <<[timestamp |-> last_event.timestamp, has_values |-> TRUE,
                                    values |-> <<[path |-> NavigationPosition,
                                                  value |-> position]>>]>>]
           batch == AddDeltaToBatch(Options("exclude", <<>>), delta, <<>>)
           published == PublishToTimestream(batch, "db", "tbl")
       IN  last_event' = [op |-> "roundtrip",
                          latitude |-> last_event.latitude,
                          longitude |-> last_event.longitude,
                          published |-> published,
                          result |-> ParseTimestream(SelfId,
                                        QueryResult(last_event.columns,
                                                    StoredRows(published.params)))]
    /\ UNCHANGED publish_vars
    /\ UNCHANGED history_vars

\* mapper.get_value(data), parse_timestream.js:114, on one row
ResolveValue ==
    /\ last_event.op = "value_input"
    /\ last_event' = [op |-> "get_value",
                      double |-> last_event.double,
                      varchar |-> last_event.varchar,
                      value |-> GetValue(last_event.columns,
                                         CellData(last_event.columns, last_event.double,
                                                  last_event.varchar))]
    /\ UNCHANGED publish_vars
    /\ UNCHANGED history_vars

\* parse_timestream(app.selfId, data), index.js:303, on a response whose
\* ColumnInfo lacks a column
ParseIncompleteResponse ==
    /\ last_event.op = "incomplete_input"
    /\ last_event' = [op |-> "parse_incomplete",
                      columns |-> last_event.columns,
                      rows |-> last_event.rows,
                      result |-> ParseTimestream(SelfId,
                                    QueryResult(last_event.columns, last_event.rows))]
    /\ UNCHANGED publish_vars
    /\ UNCHANGED history_vars

NextParse ==
    \/ ParseResponse
    \/ RoundTrip
    \/ ResolveValue
    \/ ParseIncompleteResponse

SpecParse == InitParse /\ [][NextParse]_vars

\* C7: a published navigation.position = {latitude: a, longitude: b} goes out
\* as the two records navigation.position.latitude and
\* navigation.position.longitude of one time, and the reconstruction of
\* their rows is one update whose only value is navigation.position =
\* {latitude: a, longitude: b}.
C7_PositionRoundTrip ==
    last_event.op = "roundtrip" =>
        LET records == last_event.published.params.Records
            result == last_event.result
        IN  /\ last_event.published.wrote
            /\ Len(records) = 2
            /\ records[1].MeasureName = NavigationPositionLatitude
            /\ records[2].MeasureName = NavigationPositionLongitude
            /\ records[1].Time = records[2].Time
            /\ ~result.threw
            /\ Len(result.delta.updates) = 1
            /\ result.delta.updates[1].values =
                  <<[path |-> Str(NavigationPosition),
                     value |-> Obj(<<<<LatitudeKey, Num(last_event.latitude)>>,
                                     <<LongitudeKey, Num(last_event.longitude)>>>>)]>>

\* a position on the equator and west of Greenwich went round
C7_Witness ==
    /\ last_event.op = "roundtrip"
    /\ last_event.latitude = 0
    /\ last_event.longitude = -10
    /\ ~last_event.result.threw
    /\ Len(last_event.result.delta.updates) = 1

\* the value of a row is among the values of an update, by itself or, for
\* the two position rows, as a field of the combined navigation.position
RowIsIn(row, update) ==
    \E i \in DOMAIN update.values :
        \/ /\ update.values[i].path = Str(row.name)
           /\ update.values[i].value = row.value
        \/ /\ update.values[i].path = Str(NavigationPosition)
           /\ update.values[i].value.kind = "object"
           /\ \E f \in DOMAIN update.values[i].value.fields :
                 /\ NavigationPosition \o Dot \o update.values[i].value.fields[f][1] = row.name
                 /\ update.values[i].value.fields[f][2] = row.value

\* the number of row values an update holds: two for a combined
\* navigation.position, one for every other value
RowValueCount(update) ==
    Cardinality(UNION {
        {<<i, f>> : f \in 1..(IF /\ update.values[i].path = Str(NavigationPosition)
                                 /\ update.values[i].value.kind = "object"
                              THEN Len(update.values[i].value.fields) ELSE 1)} :
        i \in DOMAIN update.values})

\* C8: the reconstruction of a response returns one delta of context
\* vessels.<selfId> with exactly one update per distinct time of the rows;
\* the update of a time holds the value of every row of that time and of no
\* other row.
C8_OneUpdatePerTimestamp ==
    last_event.op = "parse" =>
        LET rows == last_event.rows
            delta == last_event.result.delta
        IN  /\ ~last_event.result.threw
            /\ delta.context = VesselsDot \o SelfId
            /\ Len(delta.updates) = Cardinality({rows[i].time : i \in DOMAIN rows})
            /\ {DateParse(delta.updates[u].timestamp) : u \in DOMAIN delta.updates}
                  = {rows[i].time : i \in DOMAIN rows}
            /\ \A u \in DOMAIN delta.updates :
                  LET mine == {i \in DOMAIN rows :
                                  rows[i].time = DateParse(delta.updates[u].timestamp)}
                  IN  /\ \A i \in mine : RowIsIn(rows[i], delta.updates[u])
                      /\ RowValueCount(delta.updates[u]) = Cardinality(mine)

(***************************************************************************)
(* The history facade, index.js:280-373.  Times are milliseconds.  A       *)
(* stream is the closure of one streamHistory call with the timer that     *)
(* call created; the stop function the call returned is StopStream of that *)
(* stream.  A query is in queries from the call of timestream_query.query  *)
(* until the service calls back.                                           *)
(***************************************************************************)
LookBackMs == 300000        \* index.js:343, 1000 * 60 * 5
OccupancyMs == 10000        \* index.js:357, 1000 * 10
SecondMs == 1000            \* index.js:318 and 329

\* index.js:280-309, _query: the range query issued
Query(purpose, owner, start_time, end_time) ==
    [purpose |-> purpose, owner |-> owner, start_time |-> start_time, end_time |-> end_time]

IssueQuery(q) ==
    /\ Cardinality(DOMAIN queries) < (IF q.purpose = "stream" THEN MaxPending ELSE MaxLookups)
    /\ queries' = Extend(queries, FreshId(queries), q)

\* index.js:311-336, _stream_history up to the return of the stop function
StreamHistory(cookie, startTime, playbackRate) ==
    LET id == FreshId(streams) IN
    /\ Cardinality(DOMAIN streams) < MaxStreams
    /\ streams' = Extend(streams, id,
                         [cookie |-> cookie,
                          playback_rate |-> IF playbackRate # 0 THEN playbackRate ELSE 1,
                          playback_now |-> startTime,
                          timer |-> TRUE,
                          \* observation: the options of the call and the
                          \* number of firings of the timer so far
                          startTime |-> startTime,
                          playbackRate |-> playbackRate,
                          ticks |-> 0])
    /\ _streamers' = [c \in DOMAIN _streamers \cup {cookie} |->
                        IF c = cookie THEN id ELSE _streamers[c]]
    /\ last_event' = [op |-> "stream_history", id |-> id, cookie |-> cookie]
    /\ UNCHANGED queries
    /\ UNCHANGED publish_vars

\* a window of one second whatever the rate
PlaybackIntervalEndUnscaled(playback_now, playback_rate) ==
    playback_now + SecondMs

\* index.js:318
PlaybackIntervalEnd(playback_now, playback_rate) ==
    playback_now + SecondMs * playback_rate

\* index.js:317-329: one firing of the timer of stream id
StreamTick(id) ==
    /\ id \in DOMAIN streams
    /\ streams[id].timer
    /\ LET playback_now == streams[id].playback_now
           playback_interval_end ==
               PlaybackIntervalEnd(playback_now, streams[id].playback_rate)
       IN  /\ playback_interval_end <= MaxPlayback * SecondMs
           /\ IssueQuery(Query("stream", id, playback_now, playback_interval_end))
           /\ streams' = [streams EXCEPT ![id].playback_now = playback_interval_end,
                                         ![id].ticks = @ + 1]
           /\ last_event' = [op |-> "stream_tick", id |-> id,
                             pending |-> Cardinality(DOMAIN queries),
                             start_time |-> playback_now,
                             end_time |-> playback_interval_end]
    /\ UNCHANGED _streamers
    /\ UNCHANGED publish_vars

\* index.js:331-335: the stop function returned to the caller of stream id
StopStream(id) ==
    /\ id \in DOMAIN streams
    /\ LET cookie == streams[id].cookie IN
       /\ streams' = IF cookie \in DOMAIN _streamers
                     THEN [streams EXCEPT ![_streamers[cookie]].timer = FALSE]
                     ELSE streams
       /\ _streamers' = [c \in DOMAIN _streamers \ {cookie} |-> _streamers[c]]
    /\ last_event' = [op |-> "stream_stop", id |-> id]
    /\ UNCHANGED queries
    /\ UNCHANGED publish_vars

\* index.js:338-350, _get_history up to the query
GetHistory(time) ==
    /\ IssueQuery(Query("get_history", 0, time - LookBackMs, time))
    /\ last_event' = [op |-> "get_history", time |-> time]
    /\ UNCHANGED <<_streamers, streams>>
    /\ UNCHANGED publish_vars

\* index.js:352-359, _has_any_data up to the query
HasAnyData(startTime) ==
    /\ IssueQuery(Query("has_any_data", 0, startTime, startTime + OccupancyMs))
    /\ last_event' = [op |-> "has_any_data", startTime |-> startTime]
    /\ UNCHANGED <<_streamers, streams>>
    /\ UNCHANGED publish_vars

\* what the service may answer to a query: an error, or rows of the window
QueryAnswers(q) ==
    {[err |-> TRUE, columns |-> <<>>, rows |-> <<>>]}
    \cup {[err |-> FALSE, columns |-> c, rows |-> rows] :
            c \in {CHOOSE layout \in ColumnLayouts : TRUE},
            rows \in { <<>>,
                       <<StoredRow(PathET, Num(300), q.start_time)>>,
                       <<StoredRow(NavigationPositionLatitude, Num(10), q.start_time)>> }}

\* index.js:362-367: the argument of the callback of hasAnyData
HasData(deltas) ==
    LET update_count == [i \in DOMAIN deltas |-> Len(deltas[i].updates)]
        total_updates == update_count[1]     \* reduce over the one count
    IN  total_updates > 0

\* index.js:299-307 with the then and catch handlers of the caller
\* (index.js:321-326, 344-349, 359-372): the service calls back.  When
\* parse_timestream raises inside the callback the promise is never settled
\* and neither handler runs.
QueryAnswered(qid, answer) ==
    /\ qid \in DOMAIN queries
    /\ LET q == queries[qid]
           parsed == IF answer.err THEN [threw |-> FALSE, delta |-> NoDelta]
                     ELSE ParseTimestream(SelfId, QueryResult(answer.columns, answer.rows))
           resolved == ~answer.err /\ ~parsed.threw
           deltas == <<parsed.delta>>
       IN  last_event' =
              [op |-> "query_answered", query |-> q, answer |-> answer,
               threw |-> parsed.threw,
               \* on_delta of streamHistory and callback of getHistory
               delivered |-> IF resolved /\ q.purpose \in {"stream", "get_history"}
                             THEN <<deltas>> ELSE <<>>,
               \* callback of hasAnyData
               has_data |-> IF q.purpose # "has_any_data" \/ parsed.threw THEN <<>>
                            ELSE IF answer.err THEN <<FALSE>>
                            ELSE <<HasData(deltas)>>]
    /\ queries' = [i \in DOMAIN queries \ {qid} |-> queries[i]]
    /\ UNCHANGED <<_streamers, streams>>
    /\ UNCHANGED publish_vars

Cookies == {"c1", "c2"}
StartTimes == {1000}
PlaybackRates == {0, 2}       \* 0: options.playbackRate absent

\* The host calls getHistory, streamHistory and hasAnyData on the registered
\* history provider only: between registerHistoryProvider, index.js:244, and
\* unregisterHistoryProvider, index.js:271.  Timers, stop functions and
\* query results are not bound to the registration.
NextHistory ==
    \/ \E cookie \in Cookies, startTime \in StartTimes, playbackRate \in PlaybackRates :
          ~Stopped /\ StreamHistory(cookie, startTime, playbackRate)
    \/ \E id \in DOMAIN streams : StreamTick(id)
    \/ \E id \in DOMAIN streams : StopStream(id)
    \/ ~Stopped /\ GetHistory(LookBackMs)
    \/ \E startTime \in StartTimes : ~Stopped /\ HasAnyData(startTime)
    \/ \E qid \in DOMAIN queries : \E answer \in QueryAnswers(queries[qid]) :
          QueryAnswered(qid, answer)
    \/ _handle_delta = 0 /\ Start(Options("exclude", <<>>))
    \/ Stop

SpecHistory == Init /\ [][NextHistory]_vars

\* C9: when the service answers the query of a hasAnyData call, the
\* callback of that call is invoked exactly once: with false when the query
\* failed or returned no row, with true when it returned rows.
C9_HasAnyDataCallbackOnce ==
    (last_event.op = "query_answered" /\ last_event.query.purpose = "has_any_data")
        => last_event.has_data =
              << ~last_event.answer.err /\ last_event.answer.rows # <<>> >>

\* a step leaves the timers and positions of the streams other than id alone
OtherStreamsUnchanged(id) ==
    /\ DOMAIN streams' = DOMAIN streams
    /\ \A j \in DOMAIN streams \ {id} : streams'[j] = streams[j]

\* C10: the stop function returned by a streamHistory call cancels the timer
\* that call created and leaves every other stream's timer and position,
\* and the publish side, as they were; a tick of a stream moves only that
\* stream's position.  This holds whatever tokens the calls were given.
C10_StreamOwnsItsTimer ==
    [][/\ last_event'.op = "stream_stop" =>
            /\ ~streams'[last_event'.id].timer
            /\ OtherStreamsUnchanged(last_event'.id)
            /\ Closures' = Closures
       /\ last_event'.op = "stream_tick" =>
            /\ OtherStreamsUnchanged(last_event'.id)
            /\ streams'[last_event'.id].timer = streams[last_event'.id].timer
            /\ Closures' = Closures]_vars

(***************************************************************************)
(* The life cycle: start and stop in any order, index.js:237-278.  start   *)
(* does not look at _handle_delta or _publish_interval before it assigns   *)
(* them, so a start that follows a start leaves the earlier closure's      *)
(* handler registered and its timer running.                               *)
(***************************************************************************)
LifecycleOptions == { Options("exclude", <<>>), Options("include", <<>>) }

LifecycleDeltas ==
    { DeltaOf(VesselsSelf, <<UpdateOf(Iso(1000), <<Entry(PathET, Num(300))>>)>>),
      DeltaOf(VesselsDot \o SelfId, <<UpdateOf(Iso(2000), <<Entry(PathAB, Str(<<"x">>))>>)>>) }

NextLifecycle ==
    \/ \E options \in LifecycleOptions :
          Cardinality(DOMAIN instances) < MaxClosures /\ Start(options)
    \/ Stop
    \/ \E delta \in LifecycleDeltas : HandleDelta(delta)
    \/ \E i \in DOMAIN instances : Tick(i)

SpecLifecycle == Init /\ [][NextLifecycle]_vars

\* C11: stop discards the pending batch.  No closure holds a point once stop
\* has returned, and no publish tick fires between a stop and the next
\* start, so the points absorbed since the last tick are never written
\* (stop itself makes no write call: only a tick does).
C11_StopDiscardsBatch ==
    [][/\ last_event'.op = "stop" =>
            \A i \in DOMAIN instances' : instances'[i].batch_of_points = <<>>
       /\ Stopped => last_event'.op # "tick"]_vars

\* C13: whenever the last call of a sequence of start and stop calls was
\* stop, no delta handler is registered and no publish timer is active.
C13_StartStopSymmetric ==
    Stopped => \A i \in DOMAIN instances :
                  ~instances[i].listening /\ ~instances[i].timer

\* the batch that absorbing the value entries of log, in order, builds from
\* an empty batch
RECURSIVE BatchOfEntries(_, _, _)
BatchOfEntries(options, log, map) ==
    IF log = <<>> THEN map
    ELSE LET e == Head(log)
             next == IF FilterFunction(options, [path |-> e.path])
                     THEN BatchSet(map, [name |-> e.path, value |-> e.value,
                                         timestamp |-> DateParse(e.timestamp)])
                     ELSE map
         IN  BatchOfEntries(options, Tail(log), next)

\* C12: a failed write call is neither retried nor rolled back.  At the
\* tick that follows a failed write the batch is the one built from the
\* entries absorbed since the failed tick alone, so the write is made from
\* those entries only, as it is after a successful write.
C12_FailedWriteNotRetried ==
    (IsTick /\ last_event.after_failure) =>
        /\ last_event.batch_of_points
              = BatchOfEntries(last_event.options, last_event.absorbed, <<>>)
        /\ WrittenTriples \subseteq
              UNION {EntryTriples(e) : e \in Range(last_event.absorbed)}

\* a failed write was followed by an interval that absorbed a point and by
\* a tick that wrote it
C12_Witness ==
    /\ IsTick
    /\ last_event.after_failure
    /\ last_event.absorbed # <<>>
    /\ last_event.result.wrote

\* the records of the points of a batch that have a value
BatchTriples(batch_of_points) ==
    UNION {Range(PointTriples(point)) :
              point \in {q \in Range(batch_of_points) : HasProperValues(q)}}

\* C14: the batch a tick publishes holds exactly the latest point of every
\* accepted path absorbed since the previous tick of the closure, and none
\* absorbed earlier or later; the tick's write carries the records of every
\* such point that has a value, and after the tick the batch is empty.
C14_TickBoundary ==
    IsTick =>
        /\ last_event.batch_of_points
              = BatchOfEntries(last_event.options, last_event.absorbed, <<>>)
        /\ WrittenTriples = BatchTriples(last_event.batch_of_points)
        /\ instances[last_event.id].batch_of_points = <<>>

\* C15: the tick handler completes for every batch: it raises nothing, the
\* points whose value is not null are written, and the batch is reset.
C15_TickNeverThrows ==
    IsTick =>
        /\ ~last_event.result.threw
        /\ BatchTriples(SelectSeq(last_event.batch_of_points,
                                  LAMBDA point : point.value.kind # "null"))
              \subseteq WrittenTriples
        /\ instances[last_event.id].batch_of_points = <<>>

\* C16: stop clears every active playback timer, so that no stream started
\* before the stop issues a further range query.
C16_StopClearsPlaybackTimers ==
    [][last_event'.op = "stop" =>
          \A id \in DOMAIN streams' : ~streams'[id].timer]_vars

\* C17: the result of a range query of a stream that arrives after stop, or
\* after the stream's timer was cancelled by a stop function, is not
\* delivered to the subscriber of the stream.
C17_LateResultIgnored ==
    (/\ last_event.op = "query_answered"
     /\ last_event.query.purpose = "stream"
     /\ Stopped \/ ~streams[last_event.query.owner].timer)
        => last_event.delivered = <<>>

\* the rate of a stream in seconds per tick: 1 when playbackRate is absent
\* or 0
RateOf(stream) == IF stream.playbackRate = 0 THEN 1 ELSE stream.playbackRate

\* the start of the window of tick k of a stream
WindowStart(stream, k) == stream.startTime + k * RateOf(stream) * SecondMs

\* C18: after k ticks the position of a stream is startTime + k*r seconds,
\* and tick k (k = 0, 1, ...) issues exactly one range query, for the window
\* from startTime + k*r seconds to startTime + (k+1)*r seconds, whatever
\* became of the earlier queries.
C18_PlaybackWindows ==
    /\ \A id \in DOMAIN streams :
          streams[id].playback_now = WindowStart(streams[id], streams[id].ticks)
    /\ last_event.op = "stream_tick" =>
          LET stream == streams[last_event.id]
              k == stream.ticks - 1
              issued == {qid \in DOMAIN queries :
                            queries[qid] = Query("stream", last_event.id,
                                                 WindowStart(stream, k),
                                                 WindowStart(stream, k + 1))}
          IN  /\ last_event.start_time = WindowStart(stream, k)
              /\ last_event.end_time = WindowStart(stream, k + 1)
              /\ issued # {}
              /\ Cardinality(DOMAIN queries) = last_event.pending + 1

\* the second tick of a stream fired while the query of its first tick was
\* still in flight
C18_Witness ==
    /\ last_event.op = "stream_tick"
    /\ streams[last_event.id].ticks = 2
    /\ \E qid \in DOMAIN queries :
          /\ queries[qid].owner = last_event.id
          /\ queries[qid].purpose = "stream"
          /\ queries[qid].end_time = last_event.start_time

\* the rows of navigation.position.latitude that have no row of
\* navigation.position.longitude of their time beside them
LoneLatitudes(rows) ==
    {i \in DOMAIN rows :
        /\ rows[i].name = NavigationPositionLatitude
        /\ \A j \in DOMAIN rows :
              rows[j].time = rows[i].time => rows[j].name # NavigationPositionLongitude}

\* C19: reconstructing rows in which a latitude stands without a longitude
\* raises nothing, and the update of that time carries navigation.position
\* with the latitude found and a longitude that is undefined.
C19_LatitudeWithoutLongitude ==
    (last_event.op = "parse" /\ LoneLatitudes(last_event.rows) # {}) =>
        /\ ~last_event.result.threw
        /\ \A i \in LoneLatitudes(last_event.rows) :
              \E u \in DOMAIN last_event.result.delta.updates :
                 LET update == last_event.result.delta.updates[u] IN
                 /\ DateParse(update.timestamp) = last_event.rows[i].time
                 /\ \E v \in DOMAIN update.values :
                       /\ update.values[v].path = Str(NavigationPosition)
                       /\ update.values[v].value
                             = Obj(<<<<LatitudeKey, last_event.rows[i].value>>,
                                     <<LongitudeKey, Undefined>>>>)

\* the text of a cell is a number equal to zero
IsZeroCell(cell) == cell.kind = "string" /\ ParseFloat(cell.str) = Num(0)

\* C20 as stated: the value of a row is the parsed double-typed cell when
\* that cell is present and does not carry a numeric zero, and the
\* string-typed cell otherwise, so that a row with the double "0.0" is
\* resolved to its string-typed cell.
C20_ZeroResolvesToVarchar ==
    last_event.op = "get_value" =>
        last_event.value =
            IF /\ last_event.double.kind = "string"
               /\ last_event.double.str # <<>>
               /\ ~IsZeroCell(last_event.double)
            THEN ParseFloat(last_event.double.str)
            ELSE last_event.varchar

\* C20, amended: the value of a row is the parsed double-typed cell when
\* that cell is present and not the empty text, and the string-typed cell
\* otherwise; a row with the double "0.0" is resolved to the number 0.
C20_RowValueResolution ==
    last_event.op = "get_value" =>
        /\ last_event.value =
              IF last_event.double.kind = "string" /\ last_event.double.str # <<>>
              THEN ParseFloat(last_event.double.str)
              ELSE last_event.varchar
        /\ IsZeroCell(last_event.double) => last_event.value = Num(0)

\* a row with the double "0.0" beside a string-typed cell was resolved
C20_Witness ==
    /\ last_event.op = "get_value"
    /\ IsZeroCell(last_event.double)
    /\ last_event.varchar = Str(<<"x">>)
    /\ last_event.value = Num(0)

\* C21: a response whose column descriptors lack one of the four columns
\* is reconstructed without an error: the result is a Delta with one Update
\* per time of the rows, each row's measure among the values of its time.
C21_MissingColumnTolerated ==
    last_event.op = "parse_incomplete" =>
        LET rows == last_event.rows  delta == last_event.result.delta IN
        /\ ~last_event.result.threw
        /\ {DateParse(delta.updates[u].timestamp) : u \in DOMAIN delta.updates}
              = {rows[i].time : i \in DOMAIN rows}
        /\ Len(delta.updates) = Cardinality({rows[i].time : i \in DOMAIN rows})

(***************************************************************************)
(* SpecBatch: the absorption function of index.js:167-210 applied to the   *)
(* updates within the bounds, once as one delta and once update by update. *)
(***************************************************************************)
BatchUpdates ==
    { UpdateOf(Iso(1000), <<Entry(PathET, Num(300))>>),
      UpdateOf(Iso(2000), <<Entry(PathET, Num(310)), Entry(PathAB, Str(<<"x">>))>>),
      UpdateOf(Iso(2000), <<Entry(PathAB, Bool(TRUE))>>),
      UpdateOf(Iso(1000), <<Entry(PathA, Composite)>>),
      UpdateWithoutValues }

StartingBatches ==
    { <<>>,
      <<[name |-> PathET, value |-> Num(290), timestamp |-> 500],
        [name |-> PathA, value |-> Num(1), timestamp |-> 500]>> }

BatchInputs ==
    {[op |-> "batch_input", options |-> options, updates |-> updates,
      batch_of_points |-> batch] :
        options \in OptionsSet,
        updates \in UNION {[1..n -> BatchUpdates] : n \in 0..MaxUpdates},
        batch \in StartingBatches}

InitBatch ==
    /\ instances = NoFunction
    /\ _handle_delta = 0
    /\ _publish_interval = 0
    /\ _database_name = "undefined"
    /\ _table_name = "undefined"
    /\ _streamers = NoFunction
    /\ streams = NoFunction
    /\ queries = NoFunction
    /\ last_event \in BatchInputs

\* add_to_batch called once per update, index.js:233, each delta carrying
\* one update
RECURSIVE AbsorbEach(_, _, _)
AbsorbEach(options, updates, batch_of_points) ==
    IF updates = <<>> THEN batch_of_points
    ELSE AbsorbEach(options, Tail(updates),
                    AddDeltaToBatch(options, DeltaOf(VesselsSelf, <<Head(updates)>>),
                                    batch_of_points))

\* add_to_batch called on the same updates both ways
AbsorbBothWays ==
    /\ last_event.op = "batch_input"
    /\ last_event' = [op |-> "absorbed",
                      options |-> last_event.options,
                      updates |-> last_event.updates,
                      batch_of_points |-> last_event.batch_of_points,
                      at_once |-> AddDeltaToBatch(last_event.options,
                                                  DeltaOf(VesselsSelf, last_event.updates),
                                                  last_event.batch_of_points),
                      one_by_one |-> AbsorbEach(last_event.options, last_event.updates,
                                                last_event.batch_of_points)]
    /\ UNCHANGED publish_vars
    /\ UNCHANGED history_vars

SpecBatch == InitBatch /\ [][AbsorbBothWays]_vars

\* C22: absorbing a sequence of updates as one delta and absorbing it as one
\* delta per update, in the same order from the same batch, end in the same
\* batch.
C22_BatchingGranularity ==
    last_event.op = "absorbed" => last_event.at_once = last_event.one_by_one

\* three updates, two of them for one path with different values, were
\* absorbed into a batch that held points, and changed it
C22_Witness ==
    /\ last_event.op = "absorbed"
    /\ Len(last_event.updates) = 3
    /\ last_event.batch_of_points # <<>>
    /\ last_event.at_once # last_event.batch_of_points
    /\ \E i, j \in DOMAIN last_event.updates :
          /\ i < j
          /\ last_event.updates[i].has_values /\ last_event.updates[j].has_values
          /\ \E v \in DOMAIN last_event.updates[i].values :
             \E w \in DOMAIN last_event.updates[j].values :
                /\ last_event.updates[i].values[v].path = last_event.updates[j].values[w].path
                /\ last_event.updates[i].values[v].value # last_event.updates[j].values[w].value

\* C23: in every reachable state every entry of every batch holds a scalar
\* value under its scalar path; no entry holds a composite value.
C23_BatchEntriesScalar ==
    \A i \in DOMAIN instances :
        \A k \in DOMAIN instances[i].batch_of_points :
            instances[i].batch_of_points[k].value.kind # "object"

(***************************************************************************)
(* The write-only variant of the plugin, src/unnamed/part_000.  Its        *)
(* absorption function returns undefined where index.js returns the batch, *)
(* so the variable batch_of_points of a closure holds a map or undefined:  *)
(* [defined, points].  Its filter, its points and its records are those of *)
(* index.js without the expansion of composite values.                     *)
(***************************************************************************)
UndefinedBatch == [defined |-> FALSE, points |-> <<>>]

DefinedBatch(points) == [defined |-> TRUE, points |-> points]

\* part_000:135-160: the reduce over the updates; acc is [threw, batch].
\* map[point.name] = point raises when the accumulator is undefined.
RECURSIVE WriteOnlyReduceUpdates(_, _, _)
WriteOnlyReduceUpdates(options, updates, acc) ==
    IF updates = <<>> \/ acc.threw THEN acc
    ELSE LET update == Head(updates)
             points == UpdatePoints(options, update)
             next == IF ~update.has_values
                     THEN [threw |-> FALSE, batch |-> UndefinedBatch]
                     ELSE IF points = <<>> THEN acc
                     ELSE IF ~acc.batch.defined
                     THEN [threw |-> TRUE, batch |-> acc.batch]
                     ELSE [threw |-> FALSE,
                           batch |-> DefinedBatch(ReducePoints(points, acc.batch.points))]
         IN  WriteOnlyReduceUpdates(options, Tail(updates), next)

\* part_000:119-161: the function _add_delta_to_batch returns
WriteOnlyAddDeltaToBatch(options, delta, batch_of_points) ==
    IF delta.context # VesselsSelf /\ delta.context # SelfId
    THEN [threw |-> FALSE, batch |-> UndefinedBatch]
    ELSE IF ~delta.has_updates THEN [threw |-> FALSE, batch |-> UndefinedBatch]
    ELSE WriteOnlyReduceUpdates(options, delta.updates,
                                [threw |-> FALSE, batch |-> batch_of_points])

\* part_000:43-83, _publish_to_timstream: Object.values(undefined) raises
WriteOnlyPublishToTimestream(batch_of_points, database, table) ==
    IF ~batch_of_points.defined
    THEN [threw |-> TRUE, wrote |-> FALSE, params |-> NoParams]
    ELSE LET records == [i \in DOMAIN batch_of_points.points |->
                            Record(batch_of_points.points[i])]
         IN  [threw |-> FALSE, wrote |-> Len(records) > 0,
              params |-> [DatabaseName |-> database, TableName |-> table,
                          Records |-> records,
                          CommonAttributes |->
                              [TimeUnit |-> "MILLISECONDS",
                               Dimensions |-> <<[Name |-> "context", Value |-> SelfId]>>]]]

\* part_000:188-205, _start with _create_handle_delta, part_000:164-186:
\* the handler is registered and never removed
WriteOnlyStart(options) ==
    LET id == FreshId(instances) IN
    /\ Cardinality(DOMAIN instances) < MaxClosures
    /\ _database_name' = options.database
    /\ _table_name' = options.table
    /\ instances' = Extend(instances, id,
                           [options |-> options, batch_of_points |-> DefinedBatch(<<>>),
                            listening |-> TRUE, timer |-> TRUE])
    /\ _publish_interval' = id
    /\ last_event' = [op |-> "start", options |-> options]
    /\ UNCHANGED _handle_delta
    /\ UNCHANGED history_vars

\* part_000:207-211, _stop
WriteOnlyStop ==
    /\ instances' = [i \in DOMAIN instances |->
                        [instances[i] EXCEPT
                            !.timer = IF i = _publish_interval THEN FALSE ELSE @]]
    /\ last_event' = [op |-> "stop"]
    /\ UNCHANGED <<_handle_delta, _publish_interval, _database_name, _table_name>>
    /\ UNCHANGED history_vars

\* the handlers the bus calls for one delta, in the order of registration:
\* a handler that raises ends the emit, the later handlers are not called
RECURSIVE WriteOnlyEmit(_, _, _)
WriteOnlyEmit(closures, delta, i) ==
    IF i \notin DOMAIN closures THEN [closures |-> closures, threw |-> FALSE]
    ELSE LET result == WriteOnlyAddDeltaToBatch(closures[i].options, delta,
                                                closures[i].batch_of_points)
         IN  IF result.threw THEN [closures |-> closures, threw |-> TRUE]
             ELSE WriteOnlyEmit([closures EXCEPT ![i].batch_of_points = result.batch],
                                delta, i + 1)

\* part_000:183-185: the bus delivers a delta
WriteOnlyHandleDelta(delta) ==
    /\ instances # NoFunction
    /\ LET emitted == WriteOnlyEmit(instances, delta, 1) IN
       /\ instances' = emitted.closures
       /\ last_event' = [op |-> "delta", delta |-> delta, threw |-> emitted.threw]
    /\ UNCHANGED <<_handle_delta, _publish_interval, _database_name, _table_name>>
    /\ UNCHANGED history_vars

\* part_000:175-180: one firing of the publish timer of closure i
WriteOnlyTick(i) ==
    /\ i \in DOMAIN instances
    /\ instances[i].timer
    /\ LET result == WriteOnlyPublishToTimestream(instances[i].batch_of_points,
                                                  _database_name, _table_name)
       IN  /\ last_event' = [op |-> "tick", id |-> i,
                             batch_of_points |-> instances[i].batch_of_points,
                             threw |-> result.threw, result |-> result]
           /\ instances' = [instances EXCEPT
                               ![i].batch_of_points =
                                   IF result.threw THEN @ ELSE DefinedBatch(<<>>)]
    /\ UNCHANGED <<_handle_delta, _publish_interval, _database_name, _table_name>>
    /\ UNCHANGED history_vars

WriteOnlyDeltas ==
    { DeltaOf(VesselsSelf, <<UpdateOf(Iso(1000), <<Entry(PathET, Num(300))>>)>>),
      DeltaOf(SelfId, <<UpdateOf(Iso(2000), <<Entry(PathAB, Str(<<"x">>))>>)>>),
      DeltaOf(VesselsDot \o <<"x">>, <<UpdateOf(Iso(2000), <<Entry(PathET, Num(310))>>)>>),
      [context |-> VesselsSelf, has_updates |-> FALSE, updates |-> <<>>],
      DeltaOf(VesselsSelf, <<UpdateWithoutValues>>),
      DeltaOf(VesselsSelf, <<UpdateWithoutValues,
                             UpdateOf(Iso(2000), <<Entry(PathET, Num(310))>>)>>) }

NextWriteOnly ==
    \/ \E options \in OptionsSet : WriteOnlyStart(options)
    \/ WriteOnlyStop
    \/ \E delta \in WriteOnlyDeltas : WriteOnlyHandleDelta(delta)
    \/ \E i \in DOMAIN instances : WriteOnlyTick(i)

SpecWriteOnly == Init /\ [][NextWriteOnly]_vars

\* a delta the variant discards: foreign context, no updates, or updates
\* none of which has values
WriteOnlyIsDiscarded(delta) ==
    \/ delta.context # VesselsSelf /\ delta.context # SelfId
    \/ ~delta.has_updates
    \/ \A i \in DOMAIN delta.updates : ~delta.updates[i].has_values

\* C24: in the write-only variant a discarded delta leaves every batch the
\* map it was, with its content, and neither the handling of a delta nor a
\* publish tick raises an error.
C24_WriteOnlyDiscardKeepsBatch ==
    [][/\ (last_event'.op = "delta" /\ WriteOnlyIsDiscarded(last_event'.delta))
              => instances' = instances
       /\ last_event'.op \in {"delta", "tick"} => ~last_event'.threw]_vars

\* C25: in exclude mode no record of a write call has a MeasureName that a
\* pattern of options.filter_list matches, the records that come from the
\* expansion of a composite value included.
C25_ExcludedNeverWritten ==
    (IsTick /\ last_event.result.wrote /\ last_event.options.filter_list_type = "exclude") =>
        \A r \in Range(last_event.result.params.Records) :
            \A i \in DOMAIN last_event.options.filter_list :
                ~GlobMatches(last_event.options.filter_list[i], r.MeasureName)

\* the last event is the delivery of a Delta to the subscriber of a stream
IsStreamDelivery(event) ==
    /\ event.op = "query_answered"
    /\ event.query.purpose = "stream"
    /\ event.delivered # <<>>

\* C26: within one playback stream the Deltas reach the subscriber in the
\* order of their query windows: a Delta delivered right after another Delta
\* of the same stream is of a later window, whatever the order in which the
\* service answered.
C26_DeliveredInWindowOrder ==
    [][(/\ IsStreamDelivery(last_event)
        /\ IsStreamDelivery(last_event')
        /\ last_event'.query.owner = last_event.query.owner)
           => last_event'.query.start_time > last_event.query.start_time]_vars

(***************************************************************************)
(* The chunking helper, src/array_tester.js.  Arrays are sequences; the    *)
(* indices of the source count from 0, those of a sequence from 1.         *)
(***************************************************************************)
MaxArrayLen == 4
MaxChunkSize == 5

ChunkElements == {"p", "q", "r"}

\* Array.prototype.slice(begin, end) for 0 <= begin <= end: the elements of
\* index begin up to, not including, end, as far as the array has them
ArraySlice(array, begin, end) ==
    LET to == IF end < Len(array) THEN end ELSE Len(array) IN
    IF begin >= to THEN <<>>
    ELSE [i \in 1..(to - begin) |-> array[begin + i]]

\* a chunk count that leaves out the incomplete last chunk
ChunkCountFloor(length, chunk_size) == length \div chunk_size

\* array_tester.js:6: Math.ceil(array.length / chunk_size)
ChunkCount(length, chunk_size) == (length + chunk_size - 1) \div chunk_size

\* array_tester.js:5-10, _array_chunks
ArrayChunks(array, chunk_size) ==
    LET begins == [index \in 1..ChunkCount(Len(array), chunk_size) |->
                      (index - 1) * chunk_size]
    IN  [k \in DOMAIN begins |-> ArraySlice(array, begins[k], begins[k] + chunk_size)]

ChunkInputs ==
    {[op |-> "chunk_input", array |-> array, chunk_size |-> chunk_size] :
        array \in UNION {[1..n -> ChunkElements] : n \in 0..MaxArrayLen},
        chunk_size \in 1..MaxChunkSize}

InitChunks ==
    /\ instances = NoFunction
    /\ _handle_delta = 0
    /\ _publish_interval = 0
    /\ _database_name = "undefined"
    /\ _table_name = "undefined"
    /\ _streamers = NoFunction
    /\ streams = NoFunction
    /\ queries = NoFunction
    /\ last_event \in ChunkInputs

\* array_tester.js:23, 26, 41: one call of _array_chunks
SplitArray ==
    /\ last_event.op = "chunk_input"
    /\ last_event' = [op |-> "chunks", array |-> last_event.array,
                      chunk_size |-> last_event.chunk_size,
                      chunks |-> ArrayChunks(last_event.array, last_event.chunk_size)]
    /\ UNCHANGED publish_vars
    /\ UNCHANGED history_vars

SpecChunks == InitChunks /\ [][SplitArray]_vars

\* the count, the sizes and the positions of the chunks of a call
ChunksPartition(array, n, chunks) ==
    /\ Len(chunks) * n >= Len(array)
    /\ (Len(chunks) - 1) * n < Len(array) \/ Len(chunks) = 0
    /\ \A k \in 1..(Len(chunks) - 1) : Len(chunks[k]) = n
    /\ chunks # <<>> => Len(chunks[Len(chunks)]) \in 1..n
    /\ \A i \in 0..(Len(array) - 1) :
          /\ (i \div n) + 1 \in DOMAIN chunks
          /\ (i % n) + 1 \in DOMAIN chunks[(i \div n) + 1]
          /\ array[i + 1] = chunks[(i \div n) + 1][(i % n) + 1]
    /\ ConcatAll(chunks) = array

\* C27: _array_chunks(array, n) for n >= 1 returns ceil(length/n) chunks,
\* every chunk but the last of n elements and the last of 1..n elements,
\* element i of the array being element i mod n of chunk floor(i/n); an
\* array shorter than n yields a single chunk holding all its elements.
C27_ArrayChunks ==
    last_event.op = "chunks" =>
        LET array == last_event.array
            n == last_event.chunk_size
            chunks == last_event.chunks
        IN  /\ ChunksPartition(array, n, chunks)
            /\ Len(array) < n => chunks = <<array>>

\* C27 as the code has it: the partition as stated; an array that has
\* elements and is shorter than n yields a single chunk holding them all,
\* and the empty array yields no chunk.
C27_ArrayChunksNonEmpty ==
    last_event.op = "chunks" =>
        LET array == last_event.array
            n == last_event.chunk_size
            chunks == last_event.chunks
        IN  /\ ChunksPartition(array, n, chunks)
            /\ (array # <<>> /\ Len(array) < n) => chunks = <<array>>
            /\ array = <<>> => chunks = <<>>

\* an array was split into several chunks, the last one shorter than n
C27_Witness ==
    /\ last_event.op = "chunks"
    /\ Len(last_event.chunks) >= 2
    /\ Len(last_event.chunks[Len(last_event.chunks)]) < last_event.chunk_size
    /\ Cardinality(Range(last_event.array)) >= 2

====
